---- MODULE Spec2Model ----
(***************************************************************************)
(* Stackwatcher (src/stackwatcher.cpp, struct StackWatcher): a shell tool  *)
(* that samples the stack usage of every task 50 times a second, keeps a   *)
(* record per task handle and reports threshold crossings.                 *)
(*                                                                         *)
(* Representation of the machine types                                     *)
(*  - unsigned (32 bit): the two's complement representative of the bit    *)
(*    pattern, so the value 2^32 - k is written -k.  Subtraction of two    *)
(*    small addresses is then plain subtraction, and the unsigned order is *)
(*    ULess below.  All addresses stay below 128.                          *)
(*  - float: a triple <<e, n, d>> that stands for (n/d) * 2^(32*e) with    *)
(*    n/d in lowest terms (0.0f is <<0, 0, 1>>).  On the bounded domain    *)
(*    rounding to 24 bits preserves order and distinctness of these        *)
(*    values, the one rounding that is visible is the conversion of a      *)
(*    wrapped unsigned 2^32 - k (k < 128) to float, which gives 2^32.      *)
(*                                                                         *)
(* The text written to the stream is kept as a sequence of lines, a line   *)
(* being its kind, the task name printed in it and the numbers printed in  *)
(* it.  The tasks of the system other than the monitor itself come from    *)
(* OtherTasks with any name of TaskNames and any registers of Uppers,      *)
(* Lowers and Currents; the monitor's own stack pointer stays inside one   *)
(* region (OwnLowers, OwnCurrents).                                        *)
(*                                                                         *)
(* Next to the program state the module keeps observers, which record      *)
(* what the program did and are never read by it: acquired, released,      *)
(* mark, seen and twin always record; hyst, prev and tick record in the    *)
(* specifications SpecHyst, SpecPrev and SpecTick only.  SpecLive adds     *)
(* weak fairness of the program's own steps, for the claims about what     *)
(* eventually happens.                                                     *)
(***************************************************************************)
EXTENDS Integers, Sequences, FiniteSets, TLC

(* ------------------------------ bounds --------------------------------- *)

\* addresses sampled from the task structures are 0..MaxAddr
MaxAddr == 4

(* ------------------------- program constants --------------------------- *)

ZeroF == <<0, 0, 1>>

warningThreshold == <<0, 50, 1>>

dangerThreshold == <<0, 90, 1>>

\* FindTask(NULL): the handle of the monitor's own task
ownTask == 0

ownName == "Stackwatcher"

(* ------------------------- the sampled inputs -------------------------- *)

\* the handles of the tasks found in the lists of the system
OtherTasks == {1}

TaskNames == {"A", "B"}

Uppers == {MaxAddr - 1}

Lowers == {0, 1, MaxAddr - 1}

Currents == 0..MaxAddr

\* the monitor's own stack: one region, the pointer inside it
OwnLowers == {1}

OwnCurrents == {MaxAddr - 2, MaxAddr - 1}

(* ------------------------- unsigned and float -------------------------- *)

\* a < b on unsigned values
ULess(a, b) == IF (a >= 0) = (b >= 0) THEN a < b ELSE b < 0

RECURSIVE Gcd(_, _)
Gcd(a, b) == IF b = 0 THEN a ELSE Gcd(b, a % b)

\* (float)u of an unsigned u: <<e, m>> standing for m * 2^(32*e)
ToFloat(u) == IF u >= 0 THEN <<0, u>> ELSE <<1, 1>>

\* a < b on float values
FLess(a, b) ==
    IF a[2] = 0 THEN b[2] > 0
    ELSE IF b[2] = 0 THEN FALSE
    ELSE IF a[1] # b[1] THEN a[1] < b[1]
    ELSE a[2] * b[3] < b[2] * a[3]

FLeq(a, b) == ~FLess(b, a)

\* StackInfo that takes a pointer above upper for an empty stack
StackInfo_Clamped(upper, lower, current) ==
    [upper |-> upper, lower |-> lower, current |-> current,
     total |-> upper - lower,
     used |-> IF current > upper THEN 0 ELSE upper - current]

StackInfo(upper, lower, current) ==
    [upper |-> upper, lower |-> lower, current |-> current,
     total |-> upper - lower, used |-> upper - current]

\* percentage without the test of total: x / 0.0f is +inf, drawn as 2^64
percentage_NoGuard(used, total) ==
    IF total = 0 THEN (IF used = 0 THEN ZeroF ELSE <<2, 1, 1>>)
    ELSE LET fu == ToFloat(used)
             ft == ToFloat(total)
             n  == 100 * fu[2]
             d  == ft[2]
             g  == Gcd(n, d)
         IN IF n = 0 THEN ZeroF ELSE <<fu[1] - ft[1], n \div g, d \div g>>

percentage(used, total) ==
    IF total = 0 THEN ZeroF
    ELSE LET fu == ToFloat(used)
             ft == ToFloat(total)
             n  == 100 * fu[2]
             d  == ft[2]
             g  == Gcd(n, d)
         IN IF n = 0 THEN ZeroF ELSE <<fu[1] - ft[1], n \div g, d \div g>>

(* ------------------------------ records -------------------------------- *)

TaskData(name, used, total) ==
    [name |-> name, maxUsage |-> used, total |-> total,
     warningAt |-> ZeroF, dangerAt |-> ZeroF]

\* TaskData(): what tasks[t] creates for a key that is not in the map
DefaultTaskData ==
    [name |-> "", maxUsage |-> 0, total |-> 0,
     warningAt |-> ZeroF, dangerAt |-> ZeroF]

\* an assignment that leaves r as the only entry of the map
Put_Fresh(tk, t, r) == [k \in {t} |-> r]

\* tasks[t] = r
Put(tk, t, r) == [k \in DOMAIN tk \cup {t} |-> IF k = t THEN r ELSE tk[k]]

\* the map after an evaluation of tasks[t]
Index(tk, t) == IF t \in DOMAIN tk THEN tk ELSE Put(tk, t, DefaultTaskData)

\* one line of text in the stream
Line(kind, name, args) == [kind |-> kind, name |-> name, args |-> args]

VerboseKinds == {"Added", "UsesNow", "SizeChanged"}

AlertKinds == {"DANGER", "Warning", "ERROR"}

(* ---------------------- the sampling operations ------------------------ *)
\* c is [tasks, stream]: the map and the text buffer of one StackWatcher

taskPtrFound(c, t) == t \in DOMAIN c.tasks

\* evaluated only after taskPtrFound, so tasks[t] exists
sameName(c, t, name) == name = c.tasks[t].name

\* addTask that keeps the record of a known handle whatever the name
addTask_KeepKnown(c, vb, t, name, si) ==
    IF taskPtrFound(c, t)
    THEN c
    ELSE [tasks  |-> Put(c.tasks, t, TaskData(name, si.used, si.total)),
          stream |-> IF vb
                     THEN Append(c.stream,
                                 Line("Added", name, <<t, si.used, si.total>>))
                     ELSE c.stream]

\* addTask with the test inverted: it returns for an unknown handle
addTask_Inverted(c, vb, t, name, si) ==
    IF ~(taskPtrFound(c, t) /\ sameName(c, t, name))
    THEN c
    ELSE [tasks  |-> Put(c.tasks, t, TaskData(name, si.used, si.total)),
          stream |-> IF vb
                     THEN Append(c.stream,
                                 Line("Added", name, <<t, si.used, si.total>>))
                     ELSE c.stream]

addTask(c, vb, t, name, si) ==
    IF taskPtrFound(c, t) /\ sameName(c, t, name)
    THEN c
    ELSE [tasks  |-> Put(c.tasks, t, TaskData(name, si.used, si.total)),
          stream |-> IF vb
                     THEN Append(c.stream,
                                 Line("Added", name, <<t, si.used, si.total>>))
                     ELSE c.stream]

\* the bounds test, shared by the variants of checkLimits below
WithError(c1, name, si) ==
    IF ULess(si.current, si.lower) \/ ULess(si.upper, si.current)
    THEN [c1 EXCEPT !.stream =
             Append(@, Line("ERROR", name, <<si.current, si.lower, si.upper>>))]
    ELSE c1

\* checkLimits comparing with >= against the recorded percentage
checkLimits_Geq(c, t, name, si) ==
    LET p  == percentage(si.used, si.total)
        tk == Index(c.tasks, t)
    IN WithError(
         IF FLeq(dangerThreshold, p)
         THEN IF FLeq(tk[t].dangerAt, p)
              THEN [tasks  |-> [tk EXCEPT ![t].dangerAt = p],
                    stream |-> Append(c.stream, Line("DANGER", name, p))]
              ELSE [c EXCEPT !.tasks = tk]
         ELSE IF FLeq(warningThreshold, p)
         THEN IF FLeq(tk[t].warningAt, p)
              THEN [tasks  |-> [tk EXCEPT ![t].warningAt = p],
                    stream |-> Append(c.stream, Line("Warning", name, p))]
              ELSE [c EXCEPT !.tasks = tk]
         ELSE c, name, si)

\* checkLimits that prints the alert lines without recording the percentage
checkLimits_NoStore(c, t, name, si) ==
    LET p  == percentage(si.used, si.total)
        tk == Index(c.tasks, t)
    IN WithError(
         IF FLeq(dangerThreshold, p)
         THEN IF FLess(tk[t].dangerAt, p)
              THEN [tasks  |-> tk,
                    stream |-> Append(c.stream, Line("DANGER", name, p))]
              ELSE [c EXCEPT !.tasks = tk]
         ELSE IF FLeq(warningThreshold, p)
         THEN IF FLess(tk[t].warningAt, p)
              THEN [tasks  |-> tk,
                    stream |-> Append(c.stream, Line("Warning", name, p))]
              ELSE [c EXCEPT !.tasks = tk]
         ELSE c, name, si)

\* checkLimits with the warning test not chained to the danger test by else
checkLimits_NoElse(c, t, name, si) ==
    LET p  == percentage(si.used, si.total)
        tk == Index(c.tasks, t)
        c1 == IF FLeq(dangerThreshold, p) /\ FLess(tk[t].dangerAt, p)
              THEN [tasks  |-> [tk EXCEPT ![t].dangerAt = p],
                    stream |-> Append(c.stream, Line("DANGER", name, p))]
              ELSE [c EXCEPT !.tasks = tk]
    IN WithError(
         IF FLeq(warningThreshold, p) /\ FLess(c1.tasks[t].warningAt, p)
         THEN [tasks  |-> [c1.tasks EXCEPT ![t].warningAt = p],
               stream |-> Append(c1.stream, Line("Warning", name, p))]
         ELSE c1, name, si)

\* checkLimits with the bounds test chained to the threshold tests by else
checkLimits_ErrorElse(c, t, name, si) ==
    LET p  == percentage(si.used, si.total)
        tk == Index(c.tasks, t)
    IN IF FLeq(dangerThreshold, p)
       THEN IF FLess(tk[t].dangerAt, p)
            THEN [tasks  |-> [tk EXCEPT ![t].dangerAt = p],
                  stream |-> Append(c.stream, Line("DANGER", name, p))]
            ELSE [c EXCEPT !.tasks = tk]
       ELSE IF FLeq(warningThreshold, p)
       THEN IF FLess(tk[t].warningAt, p)
            THEN [tasks  |-> [tk EXCEPT ![t].warningAt = p],
                  stream |-> Append(c.stream, Line("Warning", name, p))]
            ELSE [c EXCEPT !.tasks = tk]
       ELSE WithError(c, name, si)

\* checkLimits storing the percentage of every sample in the band, printed
\* or not
checkLimits_StoreAlways(c, t, name, si) ==
    LET p  == percentage(si.used, si.total)
        tk == Index(c.tasks, t)
    IN WithError(
         IF FLeq(dangerThreshold, p)
         THEN [tasks  |-> [tk EXCEPT ![t].dangerAt = p],
               stream |-> IF FLess(tk[t].dangerAt, p)
                          THEN Append(c.stream, Line("DANGER", name, p))
                          ELSE c.stream]
         ELSE IF FLeq(warningThreshold, p)
         THEN [tasks  |-> [tk EXCEPT ![t].warningAt = p],
               stream |-> IF FLess(tk[t].warningAt, p)
                          THEN Append(c.stream, Line("Warning", name, p))
                          ELSE c.stream]
         ELSE c, name, si)

checkLimits(c, t, name, si) ==
    LET p  == percentage(si.used, si.total)
        tk == Index(c.tasks, t)
        c1 == IF FLeq(dangerThreshold, p)
              THEN IF FLess(tk[t].dangerAt, p)
                   THEN [tasks  |-> [tk EXCEPT ![t].dangerAt = p],
                         stream |-> Append(c.stream, Line("DANGER", name, p))]
                   ELSE [c EXCEPT !.tasks = tk]
              ELSE IF FLeq(warningThreshold, p)
              THEN IF FLess(tk[t].warningAt, p)
                   THEN [tasks  |-> [tk EXCEPT ![t].warningAt = p],
                         stream |-> Append(c.stream, Line("Warning", name, p))]
                   ELSE [c EXCEPT !.tasks = tk]
              ELSE c
    IN IF ULess(si.current, si.lower) \/ ULess(si.upper, si.current)
       THEN [c1 EXCEPT !.stream =
                Append(@, Line("ERROR", name, <<si.current, si.lower, si.upper>>))]
       ELSE c1

\* updateUsage with the two assignments inside the tests of verbose
updateUsage_VerboseOnly(c, vb, t, name, si) ==
    LET tk == Index(c.tasks, t)
        c1 == IF ULess(tk[t].maxUsage, si.used) /\ vb
              THEN [tasks  |-> [tk EXCEPT ![t].maxUsage = si.used],
                    stream |-> Append(c.stream,
                                      Line("UsesNow", name, <<si.used>>))]
              ELSE [c EXCEPT !.tasks = tk]
    IN IF si.total # c1.tasks[t].total /\ vb
       THEN [tasks  |-> [c1.tasks EXCEPT ![t].total = si.total],
             stream |-> Append(c1.stream,
                               Line("SizeChanged", name,
                                    <<c1.tasks[t].total, si.total>>))]
       ELSE c1

\* updateUsage storing every sample that differs from the recorded peak
updateUsage_Last(c, vb, t, name, si) ==
    LET tk == Index(c.tasks, t)
        c1 == IF tk[t].maxUsage # si.used
              THEN [tasks  |-> [tk EXCEPT ![t].maxUsage = si.used],
                    stream |-> IF vb
                               THEN Append(c.stream,
                                           Line("UsesNow", name, <<si.used>>))
                               ELSE c.stream]
              ELSE [c EXCEPT !.tasks = tk]
    IN IF si.total # c1.tasks[t].total
       THEN [tasks  |-> [c1.tasks EXCEPT ![t].total = si.total],
             stream |-> IF vb
                        THEN Append(c1.stream,
                                    Line("SizeChanged", name,
                                         <<c1.tasks[t].total, si.total>>))
                        ELSE c1.stream]
       ELSE c1

\* updateUsage without the test of the total
updateUsage_NoTotal(c, vb, t, name, si) ==
    LET tk == Index(c.tasks, t)
    IN IF ULess(tk[t].maxUsage, si.used)
       THEN [tasks  |-> [tk EXCEPT ![t].maxUsage = si.used],
             stream |-> IF vb
                        THEN Append(c.stream,
                                    Line("UsesNow", name, <<si.used>>))
                        ELSE c.stream]
       ELSE [c EXCEPT !.tasks = tk]

\* updateUsage comparing with >= against the recorded peak
updateUsage_Geq(c, vb, t, name, si) ==
    LET tk == Index(c.tasks, t)
        c1 == IF ~ULess(si.used, tk[t].maxUsage)
              THEN [tasks  |-> [tk EXCEPT ![t].maxUsage = si.used],
                    stream |-> IF vb
                               THEN Append(c.stream,
                                           Line("UsesNow", name, <<si.used>>))
                               ELSE c.stream]
              ELSE [c EXCEPT !.tasks = tk]
    IN IF si.total # c1.tasks[t].total
       THEN [tasks  |-> [c1.tasks EXCEPT ![t].total = si.total],
             stream |-> IF vb
                        THEN Append(c1.stream,
                                    Line("SizeChanged", name,
                                         <<c1.tasks[t].total, si.total>>))
                        ELSE c1.stream]
       ELSE c1

updateUsage(c, vb, t, name, si) ==
    LET tk == Index(c.tasks, t)
        c1 == IF ULess(tk[t].maxUsage, si.used)
              THEN [tasks  |-> [tk EXCEPT ![t].maxUsage = si.used],
                    stream |-> IF vb
                               THEN Append(c.stream,
                                           Line("UsesNow", name, <<si.used>>))
                               ELSE c.stream]
              ELSE [c EXCEPT !.tasks = tk]
    IN IF si.total # c1.tasks[t].total
       THEN [tasks  |-> [c1.tasks EXCEPT ![t].total = si.total],
             stream |-> IF vb
                        THEN Append(c1.stream,
                                    Line("SizeChanged", name,
                                         <<c1.tasks[t].total, si.total>>))
                        ELSE c1.stream]
       ELSE c1

\* the keys of the map in iteration order (ascending)
RECURSIVE Keys(_)
Keys(S) == IF S = {} THEN <<>>
           ELSE LET m == CHOOSE x \in S : \A y \in S : x <= y
                IN <<m>> \o Keys(S \ {m})

\* the loop of printStatistics stopping one entry before the end of the map
SummaryLines_Short(tk) ==
    LET ks == Keys(DOMAIN tk)
    IN [i \in 1..(Len(ks) - 1) |->
          Line("Summary", tk[ks[i]].name,
               percentage(tk[ks[i]].maxUsage, tk[ks[i]].total)
                 \o <<tk[ks[i]].maxUsage, tk[ks[i]].total>>)]

\* the lines printStatistics appends to the stream, one per map entry
SummaryLines(tk) ==
    LET ks == Keys(DOMAIN tk)
    IN [i \in 1..Len(ks) |->
          Line("Summary", tk[ks[i]].name,
               percentage(tk[ks[i]].maxUsage, tk[ks[i]].total)
                 \o <<tk[ks[i]].maxUsage, tk[ks[i]].total>>)]

HeaderLine == Line("Header", "", <<>>)

(* ------------------------------- state --------------------------------- *)

VARIABLES
    pc,           \* position of main() / run() / iterateTasks()
    verbose,      \* StackWatcher::verbose
    serial,       \* StackWatcher::serial
    tasks,        \* StackWatcher::tasks
    stream,       \* StackWatcher::stream, as a sequence of lines
    timerPort,    \* StackWatcher::timerPort
    timerReq,     \* StackWatcher::timerReq
    timerDevice,  \* StackWatcher::timerDevice
    ITimer,       \* the global ITimer
    timerIO,      \* system side: state of the timer request
    signals,      \* system side: signals pending for the monitor's task
    sigs,         \* run(): the result of the last Wait
    frozen,       \* system side: between Disable() and Enable()
    walk,         \* the nodes still ahead in TaskWait and in TaskReady
    phase,        \* which sampleStackUsage call site is active
    cur,          \* sampleStackUsage(): the task, its name and its StackInfo
    out,          \* what the step wrote to the console and to the debug port
    twin,         \* tasks and stream of the same run with verbose negated
    acquired,     \* system side: the resources setup() obtained
    released,     \* system side: the release calls made so far, in order
    mark,         \* length of the stream when the sample in progress began
    seen,         \* the task handles sampled so far
    obs,          \* which of the observers below are recording
    hyst,         \* observer "hyst": per handle, the alert lines still in force,
                  \* the highest alert lines and the highest usage of the record
    prev,         \* observer "prev": per handle, the sample taken before
    tick          \* observer "tick": the handles sampled in the latest pass

vars == <<pc, verbose, serial, tasks, stream, timerPort, timerReq, timerDevice,
          ITimer, timerIO, signals, sigs, frozen, walk, phase, cur, out, twin,
          acquired, released, mark, seen, obs, hyst, prev, tick>>

flagVars == <<verbose, serial, obs>>

resVars == <<timerPort, timerReq, timerDevice, ITimer, acquired, released>>

sampleVars == <<tasks, stream, twin, mark, seen, hyst, prev, tick>>

Identities == {ownTask} \cup OtherTasks

Resources == {"port", "req", "device", "iface"}

NoSample == [t |-> -1, name |-> "", si |-> StackInfo(0, 0, 0)]

NoOut == [console |-> <<>>, serial |-> <<>>]

NoBars == [everD |-> ZeroF, everW |-> ZeroF, recD |-> ZeroF, recW |-> ZeroF,
           topD |-> ZeroF, topW |-> ZeroF, peak |-> 0]

NoPrev == [name |-> "", si |-> StackInfo(0, 0, 0)]

\* sequences without repetition over a set of task handles
RECURSIVE Perms(_)
Perms(S) == IF S = {} THEN {<<>>}
            ELSE UNION {{<<x>> \o q : q \in Perms(S \ {x})} : x \in S}

\* TaskWait and TaskReady at the moment of Disable(): disjoint lists
ListPairs ==
    UNION {UNION {{<<w, r>> : r \in Perms(P[2])} : w \in Perms(P[1])} :
           P \in {Q \in (SUBSET OtherTasks) \X (SUBSET OtherTasks) :
                    Q[1] \cap Q[2] = {}}}

\* StackWatcher(argc, argv): the member initialisers and checkArgs
InitWith(O, S) ==
    /\ pc = "setup"
    /\ verbose \in BOOLEAN
    /\ serial \in S
    /\ tasks = <<>>
    /\ stream = <<>>
    /\ timerPort = "NULL"
    /\ timerReq = "NULL"
    /\ timerDevice = -1
    /\ ITimer = "NULL"
    /\ timerIO = "idle"
    /\ signals = {}
    /\ sigs = {}
    /\ frozen = FALSE
    /\ walk = <<<<>>, <<>>>>
    /\ phase = "none"
    /\ cur = NoSample
    /\ out = NoOut
    /\ twin = [tasks |-> <<>>, stream |-> <<>>]
    /\ acquired = {}
    /\ released = <<>>
    /\ mark = 0
    /\ seen = {}
    /\ obs = O
    /\ hyst = [t \in Identities |-> NoBars]
    /\ prev = [t \in Identities |-> NoPrev]
    /\ tick = {}

Init == InitWith({}, BOOLEAN)

\* the same program started without "serial", one observer recording
InitHyst == InitWith({"hyst"}, {FALSE})

InitPrev == InitWith({"prev"}, {FALSE})

InitTick == InitWith({"tick"}, {FALSE})

(* ------------------------------ setup ---------------------------------- *)

\* setup(): what the four acquisitions leave in the members when the first
\* failure is at failAt; result is the value setup() returns
setupResult(failAt) ==
    LET okPort == failAt # "port"
        okReq  == okPort /\ failAt # "req"
        okDev  == okReq /\ failAt # "device"
        okIf   == okDev /\ failAt # "iface"
    IN [timerPort   |-> IF okPort THEN "port" ELSE "NULL",
        timerReq    |-> IF okReq THEN "req" ELSE "NULL",
        timerDevice |-> IF okDev THEN 0 ELSE -1,
        ITimer      |-> IF okIf THEN "iface" ELSE "NULL",
        got         |-> {r \in Resources : \/ r = "port" /\ okPort
                                           \/ r = "req" /\ okReq
                                           \/ r = "device" /\ okDev
                                           \/ r = "iface" /\ okIf},
        result      |-> okIf]

\* main(): if (sw.setup()) sw.run();
setup ==
    /\ pc = "setup"
    /\ \E failAt \in {"port", "req", "device", "iface", "none"} :
         LET r == setupResult(failAt)
         IN /\ timerPort' = r.timerPort
            /\ timerReq' = r.timerReq
            /\ timerDevice' = r.timerDevice
            /\ ITimer' = r.ITimer
            /\ acquired' = r.got
            /\ pc' = IF r.result THEN "startTimer" ELSE "exit"
    /\ out' = NoOut
    /\ UNCHANGED <<flagVars, sampleVars, released, timerIO, signals,
                   sigs, frozen, walk, phase, cur>>

\* cleanup() closing the device without the test of timerDevice
cleanupCalls_CloseAlways(iface, req, device, port) ==
    (IF iface # "NULL" THEN <<"iface">> ELSE <<>>)
    \o (IF req # "NULL" THEN <<"device", "req">> ELSE <<>>)
    \o (IF port # "NULL" THEN <<"port">> ELSE <<>>)

\* cleanup(): the release calls it makes, in order
cleanupCalls(iface, req, device, port) ==
    (IF iface # "NULL" THEN <<"iface">> ELSE <<>>)
    \o (IF req # "NULL"
        THEN (IF device = 0 THEN <<"device">> ELSE <<>>) \o <<"req">>
        ELSE <<>>)
    \o (IF port # "NULL" THEN <<"port">> ELSE <<>>)

\* ~StackWatcher() at the return of main
cleanup ==
    /\ pc = "exit"
    /\ released' = released \o cleanupCalls(ITimer, timerReq, timerDevice, timerPort)
    /\ pc' = "done"
    /\ out' = NoOut
    /\ UNCHANGED <<flagVars, sampleVars, timerPort, timerReq, timerDevice,
                   ITimer, acquired, timerIO, signals, sigs, frozen, walk,
                   phase, cur>>

(* ------------------------------- run ----------------------------------- *)

\* startTimer(): SendIO of the timer request
startTimer ==
    /\ pc = "startTimer"
    /\ timerIO' = "pending"
    /\ pc' = "Wait"
    /\ out' = NoOut
    /\ UNCHANGED <<flagVars, sampleVars, resVars, signals, sigs,
                   frozen, walk, phase, cur>>

\* the timer device replies to the request and signals the port
TimerExpires ==
    /\ timerIO = "pending"
    /\ ~frozen
    /\ timerIO' = "done"
    /\ signals' = signals \cup {"timer"}
    /\ out' = NoOut
    /\ UNCHANGED <<pc, flagVars, sampleVars, resVars, sigs, frozen,
                   walk, phase, cur>>

\* the user presses Control-C in the shell
ControlC ==
    /\ pc \notin {"setup", "exit", "done"}
    /\ ~frozen
    /\ "ctrlc" \notin signals \cup sigs
    /\ signals' = signals \cup {"ctrlc"}
    /\ out' = NoOut
    /\ UNCHANGED <<pc, flagVars, sampleVars, resVars, timerIO, sigs,
                   frozen, walk, phase, cur>>

\* run(): where control goes after Wait returned s: iterateTasks() when the
\* timer signal is in s, else the test for Control-C
afterWait(s) == IF "timer" \in s THEN "iterateTasks" ELSE "break"

\* Wait(SIGBREAKF_CTRL_C | timerSig) returns
Wait ==
    /\ pc = "Wait"
    /\ signals # {}
    /\ sigs' = signals
    /\ signals' = {}
    /\ pc' = afterWait(signals)
    /\ out' = NoOut
    /\ UNCHANGED <<flagVars, sampleVars, resVars, timerIO, frozen,
                   walk, phase, cur>>

\* iterateTasks(): Disable(); the task lists stand still from here on
Disable ==
    /\ pc = "iterateTasks"
    /\ frozen' = TRUE
    /\ walk' \in ListPairs
    /\ phase' = "TaskWait"
    /\ pc' = "iterateTaskList"
    /\ tick' = {}
    /\ out' = NoOut
    /\ UNCHANGED <<flagVars, tasks, stream, twin, mark, seen, hyst, prev,
                   resVars, timerIO, signals, sigs, cur>>

\* iterateTaskList(): the next node of the list, sampleStackUsage begins
\* (ln_Name and the three stack registers are read)
iterateTaskListNode ==
    /\ pc = "iterateTaskList"
    /\ LET i == IF phase = "TaskWait" THEN 1 ELSE 2
       IN /\ walk[i] # <<>>
          /\ \E name \in TaskNames, u \in Uppers, l \in Lowers, c \in Currents :
               cur' = [t |-> Head(walk[i]), name |-> name,
                       si |-> StackInfo(u, l, c)]
          /\ walk' = [walk EXCEPT ![i] = Tail(@)]
          /\ seen' = seen \cup {Head(walk[i])}
          /\ tick' = IF "tick" \in obs THEN tick \cup {Head(walk[i])} ELSE tick
    /\ mark' = Len(stream)
    /\ pc' = "addTask"
    /\ out' = NoOut
    /\ UNCHANGED <<flagVars, tasks, stream, twin, hyst, prev, resVars,
                   timerIO, signals, sigs, frozen, phase>>

\* iterateTaskList(): GetHead/GetSucc returned NULL, the loop ends
iterateTaskListEnd ==
    /\ pc = "iterateTaskList"
    /\ LET i == IF phase = "TaskWait" THEN 1 ELSE 2
       IN walk[i] = <<>>
    /\ IF phase = "TaskWait"
       THEN phase' = "TaskReady" /\ pc' = "iterateTaskList"
       ELSE phase' = "none" /\ pc' = "Enable"
    /\ out' = NoOut
    /\ UNCHANGED <<flagVars, sampleVars, resVars, timerIO, signals,
                   sigs, frozen, walk, cur>>

\* iterateTasks() going on to its own task without the call of Enable()
Enable_Missing ==
    /\ pc = "Enable"
    /\ pc' = "ownTask"
    /\ out' = NoOut
    /\ UNCHANGED <<flagVars, sampleVars, resVars, timerIO, signals,
                   sigs, frozen, walk, phase, cur>>

\* iterateTasks(): Enable()
Enable ==
    /\ pc = "Enable"
    /\ frozen' = FALSE
    /\ pc' = "ownTask"
    /\ out' = NoOut
    /\ UNCHANGED <<flagVars, sampleVars, resVars, timerIO, signals,
                   sigs, walk, phase, cur>>

\* iterateTasks(): sampleStackUsage(ownTask) begins
sampleOwnTask ==
    /\ pc = "ownTask"
    /\ \E u \in Uppers, l \in OwnLowers, c \in OwnCurrents :
         cur' = [t |-> ownTask, name |-> ownName, si |-> StackInfo(u, l, c)]
    /\ seen' = seen \cup {ownTask}
    /\ tick' = IF "tick" \in obs THEN tick \cup {ownTask} ELSE tick
    /\ mark' = Len(stream)
    /\ phase' = "ownTask"
    /\ pc' = "addTask"
    /\ out' = NoOut
    /\ UNCHANGED <<flagVars, tasks, stream, twin, hyst, prev, resVars,
                   timerIO, signals, sigs, frozen, walk>>

Ctx == [tasks |-> tasks, stream |-> stream]

\* the lines a step appended to the stream
Appended == SubSeq(stream', Len(stream) + 1, Len(stream'))

\* the alert line of the given kind that the step appended, if any
Fired(kind) == {i \in 1..Len(Appended) : Appended[i].kind = kind}

\* observer "hyst": a bar is the percentage of the latest line of one kind; it
\* is lifted by the first sample above it
NewBar(bar, kind, p) ==
    IF Fired(kind) # {} THEN p
    ELSE IF FLess(bar, p) THEN ZeroF ELSE bar

\* observer "hyst": the highest percentage printed in a line of one kind
NewTop(top, kind) ==
    LET f == Fired(kind)
    IN IF f = {} THEN top
       ELSE LET q == Appended[CHOOSE i \in f : TRUE].args
            IN IF FLess(top, q) THEN q ELSE top

\* sampleStackUsage(): the call of addTask
addTaskStep ==
    /\ pc = "addTask"
    /\ LET c == addTask(Ctx, verbose, cur.t, cur.name, cur.si)
       IN tasks' = c.tasks /\ stream' = c.stream
    /\ twin' = addTask(twin, ~verbose, cur.t, cur.name, cur.si)
    /\ hyst' = IF "hyst" \in obs
                  /\ ~(cur.t \in DOMAIN tasks /\ tasks[cur.t].name = cur.name)
               THEN [hyst EXCEPT ![cur.t].recD = ZeroF, ![cur.t].recW = ZeroF,
                                 ![cur.t].topD = ZeroF, ![cur.t].topW = ZeroF,
                                 ![cur.t].peak = cur.si.used]
               ELSE hyst
    /\ pc' = "checkLimits"
    /\ out' = NoOut
    /\ UNCHANGED <<flagVars, mark, seen, prev, tick, resVars, timerIO,
                   signals, sigs, frozen, walk, phase, cur>>

\* sampleStackUsage(): the call of checkLimits
checkLimitsStep ==
    /\ pc = "checkLimits"
    /\ LET c == checkLimits(Ctx, cur.t, cur.name, cur.si)
       IN tasks' = c.tasks /\ stream' = c.stream
    /\ twin' = checkLimits(twin, cur.t, cur.name, cur.si)
    /\ hyst' = IF "hyst" \in obs
               THEN LET p == percentage(cur.si.used, cur.si.total)
                        h == hyst[cur.t]
                    IN [hyst EXCEPT ![cur.t] =
                          [everD |-> NewBar(h.everD, "DANGER", p),
                           everW |-> NewBar(h.everW, "Warning", p),
                           recD  |-> NewBar(h.recD, "DANGER", p),
                           recW  |-> NewBar(h.recW, "Warning", p),
                           topD  |-> NewTop(h.topD, "DANGER"),
                           topW  |-> NewTop(h.topW, "Warning"),
                           peak  |-> h.peak]]
               ELSE hyst
    /\ pc' = "updateUsage"
    /\ out' = NoOut
    /\ UNCHANGED <<flagVars, mark, seen, prev, tick, resVars, timerIO,
                   signals, sigs, frozen, walk, phase, cur>>

\* sampleStackUsage(): the call of updateUsage, and the return to the caller
updateUsageStep ==
    /\ pc = "updateUsage"
    /\ LET c == updateUsage(Ctx, verbose, cur.t, cur.name, cur.si)
       IN tasks' = c.tasks /\ stream' = c.stream
    /\ twin' = updateUsage(twin, ~verbose, cur.t, cur.name, cur.si)
    /\ prev' = IF "prev" \in obs
               THEN [prev EXCEPT ![cur.t] = [name |-> cur.name, si |-> cur.si]]
               ELSE prev
    /\ hyst' = IF "hyst" \in obs /\ ULess(hyst[cur.t].peak, cur.si.used)
               THEN [hyst EXCEPT ![cur.t].peak = cur.si.used]
               ELSE hyst
    /\ pc' = IF phase = "ownTask" THEN "printTextBuffer" ELSE "iterateTaskList"
    /\ phase' = IF phase = "ownTask" THEN "none" ELSE phase
    /\ out' = NoOut
    /\ UNCHANGED <<flagVars, mark, seen, tick, resVars, timerIO,
                   signals, sigs, frozen, walk, cur>>

\* resetTextBuffer that leaves the text in the stream
resetTextBuffer_Keep(c) == c

\* resetTextBuffer(): stream.str(""), stream.clear()
resetTextBuffer(c) == [c EXCEPT !.stream = <<>>]

\* run() going back to startTimer() after every pass
afterIterate_Loop(s) == "startTimer"

\* run(): the test for Control-C that follows the call of iterateTasks()
afterIterate(s) == IF "ctrlc" \in s THEN "break" ELSE "startTimer"

\* iterateTasks(): printTextBuffer(), the last statement of the pass
printTextBuffer ==
    /\ pc = "printTextBuffer"
    /\ out' = [console |-> stream,
               serial  |-> IF serial THEN stream ELSE <<>>]
    /\ stream' = resetTextBuffer(Ctx).stream
    /\ twin' = resetTextBuffer(twin)
    /\ cur' = NoSample
    /\ mark' = 0
    /\ pc' = afterIterate(sigs)
    /\ UNCHANGED <<flagVars, tasks, seen, hyst, prev, tick, resVars, timerIO,
                   signals, sigs, frozen, walk, phase>>

\* run(): Control-C was in sigs; the header, printStatistics() and break
printStatistics ==
    /\ pc = "break"
    /\ LET s == stream \o SummaryLines(tasks)
       IN out' = [console |-> <<HeaderLine>> \o s,
                  serial  |-> IF serial THEN s ELSE <<>>]
    /\ stream' = resetTextBuffer(Ctx).stream
    /\ twin' = resetTextBuffer(twin)
    /\ pc' = "stopTimer"
    /\ UNCHANGED <<flagVars, tasks, mark, seen, hyst, prev, tick, resVars,
                   timerIO, signals, sigs, frozen, walk, phase, cur>>

\* stopTimer() returning without AbortIO and WaitIO
stopTimer_NoAbort ==
    /\ pc = "stopTimer"
    /\ pc' = "exit"
    /\ out' = NoOut
    /\ UNCHANGED <<flagVars, sampleVars, resVars, timerIO, signals, sigs,
                   frozen, walk, phase, cur>>

\* stopTimer(): CheckIO, and AbortIO + WaitIO for a request still in flight
stopTimer ==
    /\ pc = "stopTimer"
    /\ timerIO' = IF timerIO = "pending" THEN "idle" ELSE timerIO
    /\ pc' = "exit"
    /\ out' = NoOut
    /\ UNCHANGED <<flagVars, sampleVars, resVars, signals, sigs,
                   frozen, walk, phase, cur>>

Next ==
    \/ setup
    \/ startTimer
    \/ TimerExpires
    \/ ControlC
    \/ Wait
    \/ Disable
    \/ iterateTaskListNode
    \/ iterateTaskListEnd
    \/ Enable
    \/ sampleOwnTask
    \/ addTaskStep
    \/ checkLimitsStep
    \/ updateUsageStep
    \/ printTextBuffer
    \/ printStatistics
    \/ stopTimer
    \/ cleanup

Spec == Init /\ [][Next]_vars

SpecHyst == InitHyst /\ [][Next]_vars

SpecPrev == InitPrev /\ [][Next]_vars

SpecTick == InitTick /\ [][Next]_vars

\* the steps of the program itself: everything but the timer device and the
\* user
Program ==
    \/ setup
    \/ startTimer
    \/ Wait
    \/ Disable
    \/ iterateTaskListNode
    \/ iterateTaskListEnd
    \/ Enable
    \/ sampleOwnTask
    \/ addTaskStep
    \/ checkLimitsStep
    \/ updateUsageStep
    \/ printTextBuffer
    \/ printStatistics
    \/ stopTimer
    \/ cleanup

\* the program started with "quiet" and without "serial"
InitLive == InitWith({}, {FALSE}) /\ ~verbose

\* the program keeps running while it has a step to take (Wait has one only
\* when a signal is pending); nothing is assumed of the timer or the user
SpecLive == InitLive /\ [][Next]_vars /\ WF_vars(Program)

(* ------------------------- properties: helpers ------------------------- *)

\* the percentage of the sample in progress
CurP == percentage(cur.si.used, cur.si.total)

\* the lines the sample in progress has put into the stream so far
SampleLines == SubSeq(stream, mark + 1, Len(stream))

Count(seq, kind) == Cardinality({i \in 1..Len(seq) : seq[i].kind = kind})

\* the percentages printed in the lines of one kind that the step appended
FiredAt(kind) == {Appended[i].args : i \in Fired(kind)}

IsCheckLimits == pc = "checkLimits" /\ pc' = "updateUsage"

IsAddTask == pc = "addTask" /\ pc' = "checkLimits"

IsUpdateUsage == pc = "updateUsage" /\ pc' # "updateUsage"

AfterSample == pc \in {"iterateTaskList", "printTextBuffer"} /\ cur # NoSample

(* -------------------------------- C1 ----------------------------------- *)

\* C1 as stated: for a fixed task handle, a DANGER line is emitted only at a
\* percentage above that of the latest DANGER line for the handle, unless a
\* sample above that percentage was seen since; likewise for Warning lines;
\* and a line of one kind leaves the history of the other kind alone.
C1_HysteresisPerHandle ==
    [][IsCheckLimits =>
         /\ \A q \in FiredAt("DANGER") : FLess(hyst[cur.t].everD, q)
         /\ \A q \in FiredAt("Warning") : FLess(hyst[cur.t].everW, q)
         /\ Fired("DANGER") # {} =>
              tasks'[cur.t].warningAt = tasks[cur.t].warningAt
         /\ Fired("Warning") # {} =>
              tasks'[cur.t].dangerAt = tasks[cur.t].dangerAt]_vars

\* C1 amended: the same, for as long as the handle keeps being observed
\* under the same name (the bars are those of the lines emitted since the
\* record of the handle was created or replaced).
C1_HysteresisPerRecord ==
    [][IsCheckLimits =>
         /\ \A q \in FiredAt("DANGER") : FLess(hyst[cur.t].recD, q)
         /\ \A q \in FiredAt("Warning") : FLess(hyst[cur.t].recW, q)
         /\ Fired("DANGER") # {} =>
              tasks'[cur.t].warningAt = tasks[cur.t].warningAt
         /\ Fired("Warning") # {} =>
              tasks'[cur.t].dangerAt = tasks[cur.t].dangerAt]_vars

\* a sample in the danger band that emitted nothing because a DANGER line at
\* the same or a higher percentage is in force
C1_Witness ==
    /\ pc = "updateUsage"
    /\ "hyst" \in obs
    /\ FLeq(dangerThreshold, CurP)
    /\ FLeq(CurP, hyst[cur.t].recD)
    /\ Count(SampleLines, "DANGER") = 0

(* -------------------------------- C2 ----------------------------------- *)

\* C2: no step lowers the maxUsage of a handle whose record keeps its name.
C2_PeakMonotone ==
    [][\A t \in DOMAIN tasks :
         (t \in DOMAIN tasks' /\ tasks'[t].name = tasks[t].name) =>
            ~ULess(tasks'[t].maxUsage, tasks[t].maxUsage)]_vars

\* a sample below the recorded peak has been processed, the peak stands
C2_Witness ==
    /\ AfterSample
    /\ ULess(cur.si.used, tasks[cur.t].maxUsage)

(* -------------------------------- C3 ----------------------------------- *)

\* C3: checkLimits appends exactly one ERROR line when the sampled pointer is
\* below lower or above upper and none otherwise, whatever else it appends
\* and whatever the record holds; addTask and updateUsage append none.
C3_ErrorEveryTime ==
    [][/\ IsCheckLimits =>
            Cardinality(Fired("ERROR")) =
               IF cur.si.current < cur.si.lower \/ cur.si.current > cur.si.upper
               THEN 1 ELSE 0
       /\ (IsAddTask \/ IsUpdateUsage) => Fired("ERROR") = {}]_vars

\* an ERROR line for a sample in the danger band whose DANGER line the history
\* of the record suppressed
C3_Witness ==
    /\ pc = "updateUsage"
    /\ cur.si.current < cur.si.lower
    /\ Count(SampleLines, "ERROR") = 1
    /\ Count(SampleLines, "DANGER") = 0
    /\ tasks[cur.t].dangerAt # ZeroF

(* -------------------------------- C4 ----------------------------------- *)

\* C4: while a sample with p >= 90 is evaluated and stored, no Warning line
\* is appended and warningAt of the record keeps its value; while a sample
\* with 50 <= p < 90 is evaluated and stored, no DANGER line is appended and
\* dangerAt keeps its value.
C4_DangerSuppressesWarning ==
    [][(IsCheckLimits \/ IsUpdateUsage) =>
         /\ FLeq(dangerThreshold, CurP) =>
              /\ Fired("Warning") = {}
              /\ tasks'[cur.t].warningAt = tasks[cur.t].warningAt
         /\ (FLeq(warningThreshold, CurP) /\ FLess(CurP, dangerThreshold)) =>
              /\ Fired("DANGER") = {}
              /\ tasks'[cur.t].dangerAt = tasks[cur.t].dangerAt]_vars

\* a danger sample evaluated on a record whose warning history is below it
\* and in force
C4_Witness ==
    /\ pc = "updateUsage"
    /\ FLeq(dangerThreshold, CurP)
    /\ tasks[cur.t].warningAt # ZeroF
    /\ Count(SampleLines, "DANGER") = 1
    /\ Count(SampleLines, "Warning") = 0

(* -------------------------------- C5 ----------------------------------- *)

\* C5: addTask on a handle that is in the map under another name leaves for
\* it the record of the new name with maxUsage and total of the new sample
\* and both histories at 0, and checkLimits runs on that record.
C5_Replacement ==
    [][(IsAddTask /\ cur.t \in DOMAIN tasks /\ tasks[cur.t].name # cur.name) =>
         tasks'[cur.t] = [name |-> cur.name, maxUsage |-> cur.si.used,
                          total |-> cur.si.total,
                          warningAt |-> ZeroF, dangerAt |-> ZeroF]]_vars

\* a handle sampled before under another name with a higher usage: the record
\* now carries the new name and the lower usage
C5_Witness ==
    /\ pc = "checkLimits"
    /\ "prev" \in obs
    /\ prev[cur.t] # NoPrev
    /\ prev[cur.t].name # cur.name
    /\ ULess(cur.si.used, prev[cur.t].si.used)
    /\ tasks[cur.t].name = cur.name
    /\ tasks[cur.t].maxUsage = cur.si.used

(* -------------------------------- C6 ----------------------------------- *)

SummaryOf(text) == SelectSeq(text, LAMBDA l : l.kind = "Summary")

\* C6: no step removes a key from the map, and the text printStatistics
\* prints holds exactly one summary line per handle ever sampled, each with
\* the name, the peak and the total of that handle's record.
C6_RetentionAndSummary ==
    [][/\ DOMAIN tasks \subseteq DOMAIN tasks'
       /\ (pc = "break" /\ pc' = "stopTimer") =>
            LET sm == SummaryOf(out'.console)
                ks == Keys(seen)
            IN /\ Len(sm) = Cardinality(seen)
               /\ \A i \in 1..Len(sm) :
                    /\ ks[i] \in DOMAIN tasks
                    /\ sm[i].name = tasks[ks[i]].name
                    /\ sm[i].args =
                         percentage(tasks[ks[i]].maxUsage, tasks[ks[i]].total)
                           \o <<tasks[ks[i]].maxUsage, tasks[ks[i]].total>>]_vars

\* the summary was printed with a line for a handle that the latest pass
\* did not sample
C6_Witness ==
    /\ pc = "stopTimer"
    /\ "tick" \in obs
    /\ seen \ tick # {}
    /\ Count(out.console, "Summary") = Cardinality(seen)

(* -------------------------------- C7 ----------------------------------- *)

\* C7: in the loop iteration whose Wait returned Control-C, whatever else it
\* returned, control never is in iterateTasks(): no task is sampled and the
\* buffer is not flushed.
C7_CancelSkipsSampling ==
    "ctrlc" \in sigs =>
       pc \notin {"iterateTasks", "iterateTaskList", "addTask", "checkLimits",
                  "updateUsage", "Enable", "ownTask", "printTextBuffer"}

(* -------------------------------- C8 ----------------------------------- *)

\* C8: checkLimits on a sample with p >= 90 and p above dangerAt of the
\* record appends exactly one DANGER line, carrying p, and stores p in
\* dangerAt; likewise for 50 <= p < 90 with warningAt and a Warning line;
\* and on a sample equal to the one taken before of the same handle (name
\* and registers) it appends neither.
C8_AlertResponse ==
    [][IsCheckLimits =>
         /\ (FLeq(dangerThreshold, CurP) /\ FLess(tasks[cur.t].dangerAt, CurP)) =>
              /\ Cardinality(Fired("DANGER")) = 1
              /\ FiredAt("DANGER") = {CurP}
              /\ tasks'[cur.t].dangerAt = CurP
         /\ (FLeq(warningThreshold, CurP) /\ FLess(CurP, dangerThreshold)
               /\ FLess(tasks[cur.t].warningAt, CurP)) =>
              /\ Cardinality(Fired("Warning")) = 1
              /\ FiredAt("Warning") = {CurP}
              /\ tasks'[cur.t].warningAt = CurP
         /\ ("prev" \in obs /\ prev[cur.t] = [name |-> cur.name, si |-> cur.si]) =>
              /\ Fired("DANGER") = {}
              /\ Fired("Warning") = {}]_vars

\* the second of two equal samples in the danger band has been evaluated:
\* dangerAt holds its percentage and no DANGER line was appended
C8_Witness ==
    /\ pc = "updateUsage"
    /\ "prev" \in obs
    /\ prev[cur.t] = [name |-> cur.name, si |-> cur.si]
    /\ FLeq(dangerThreshold, CurP)
    /\ tasks[cur.t].dangerAt = CurP
    /\ Count(SampleLines, "DANGER") = 0

(* -------------------------------- C9 ----------------------------------- *)

Releases(r) == Cardinality({i \in 1..Len(released) : released[i] = r})

\* C9: unless setup() obtained all four resources control never enters
\* run(), and when the process is done every resource obtained has been
\* released exactly once and no other resource has been released.
C9_SetupFailure ==
    /\ acquired # Resources => pc \in {"setup", "exit", "done"}
    /\ pc = "done" =>
         \A r \in Resources : Releases(r) = IF r \in acquired THEN 1 ELSE 0

\* OpenDevice failed: the request and the port were freed, nothing else
C9_Witness ==
    /\ pc = "done"
    /\ acquired = {"port", "req"}
    /\ released = <<"req", "port">>

(* -------------------------------- C10 ---------------------------------- *)

IsQuietLine(l) == l.kind \notin VerboseKinds

\* C10: the run with verbose and the run without, fed the same samples,
\* hold the same map in every state, and the stream of the quiet run is the
\* stream of the verbose run without its 'Added task', 'uses now' and 'stack
\* size changed' lines (so the alert lines flushed are the same).
C10_QuietSameAlerts ==
    LET v == IF verbose THEN Ctx ELSE twin
        q == IF verbose THEN twin ELSE Ctx
    IN /\ q.tasks = v.tasks
       /\ q.stream = SelectSeq(v.stream, IsQuietLine)
       /\ \A i \in 1..Len(q.stream) : q.stream[i].kind \in AlertKinds

\* a pass about to be flushed in which the verbose run holds a 'uses now'
\* line and both runs hold an alert line
C10_Witness ==
    /\ pc = "printTextBuffer"
    /\ verbose
    /\ Count(stream, "UsesNow") > 0
    /\ twin.stream # <<>>
    /\ Len(stream) > Len(twin.stream)

(* -------------------------------- C11 ---------------------------------- *)

IsFlush == pc = "printTextBuffer" /\ pc' # "printTextBuffer"

IsSummary == pc = "break" /\ pc' = "stopTimer"

\* C11: the stream is empty whenever run() is about to wait or waits; the
\* flush at the end of a pass writes exactly the lines in the stream (to the
\* debug port too when serial is set) and leaves the stream empty; the text
\* printStatistics writes is the header followed by summary lines only, and
\* it leaves the stream empty; every other step writes nothing and keeps the
\* lines that are in the stream, in order, so that a line is written once, by
\* the flush of the pass that appended it.
C11_BufferPerTick ==
    [][/\ pc' \in {"startTimer", "Wait", "iterateTasks", "break"} => stream' = <<>>
       /\ IsFlush =>
            /\ out'.console = stream
            /\ out'.serial = (IF serial THEN stream ELSE <<>>)
            /\ stream' = <<>>
       /\ IsSummary =>
            /\ Head(out'.console) = HeaderLine
            /\ Count(out'.console, "Summary") = Len(out'.console) - 1
            /\ Count(out'.serial, "Summary") = Len(out'.serial)
            /\ stream' = <<>>
       /\ ~(IsFlush \/ IsSummary) =>
            /\ out' = NoOut
            /\ Len(stream') >= Len(stream)
            /\ SubSeq(stream', 1, Len(stream)) = stream]_vars

\* the summary has been written right after a pass: header and two summary
\* lines, nothing of the pass
C11_Witness ==
    /\ pc = "stopTimer"
    /\ "timer" \in sigs
    /\ serial
    /\ Len(out.console) = 3
    /\ Count(out.console, "Summary") = 2
    /\ out.serial = Tail(out.console)
    /\ stream = <<>>

(* -------------------------------- C12 ---------------------------------- *)

\* C12: on a sample whose region has total = 0 the percentage is 0.0 whatever
\* used is, checkLimits appends neither a DANGER nor a Warning line for it,
\* and checkLimits and updateUsage leave dangerAt and warningAt of the record
\* as they were.
C12_ZeroTotal ==
    [][((IsCheckLimits \/ IsUpdateUsage) /\ cur.si.total = 0) =>
         /\ CurP = ZeroF
         /\ Fired("DANGER") = {}
         /\ Fired("Warning") = {}
         /\ cur.t \in DOMAIN tasks
         /\ tasks'[cur.t].dangerAt = tasks[cur.t].dangerAt
         /\ tasks'[cur.t].warningAt = tasks[cur.t].warningAt]_vars

\* a sample with total = 0 and used # 0 has been evaluated on a record that
\* holds a warning history: no alert line but the ERROR line
C12_Witness ==
    /\ pc = "updateUsage"
    /\ cur.si.total = 0
    /\ cur.si.used # 0
    /\ tasks[cur.t].warningAt # ZeroF
    /\ tasks[cur.t].dangerAt = ZeroF
    /\ Count(SampleLines, "DANGER") + Count(SampleLines, "Warning") = 0
    /\ Count(SampleLines, "ERROR") = 1

(* -------------------------------- C13 ---------------------------------- *)

AppendedKinds == {Appended[i].kind : i \in 1..Len(Appended)}

\* C13 as stated: checkLimits finds the record of the sampled handle in the
\* map and adds no key, and no 'Added task', 'uses now' or 'stack size
\* changed' line of a sample is appended once the sample has a DANGER,
\* Warning or ERROR line in the stream.
C13_ObserveBeforeLimits ==
    [][/\ IsCheckLimits =>
            /\ cur.t \in DOMAIN tasks
            /\ DOMAIN tasks' = DOMAIN tasks
       /\ ((IsAddTask \/ IsCheckLimits \/ IsUpdateUsage)
             /\ AppendedKinds \cap VerboseKinds # {}) =>
            \A i \in 1..Len(SampleLines) : SampleLines[i].kind \notin AlertKinds]_vars

\* C13 amended: addTask has created or replaced the record, with its 'Added
\* task' line, before checkLimits runs, so checkLimits finds the record of
\* the sampled handle under the sampled name and adds no key; the peak and
\* the total are updated after checkLimits, so the 'uses now' and 'stack size
\* changed' lines of a sample follow its DANGER, Warning and ERROR lines.
C13_AddBeforeLimitsBeforeUpdate ==
    [][/\ IsAddTask =>
            /\ cur.t \in DOMAIN tasks'
            /\ tasks'[cur.t].name = cur.name
            /\ AppendedKinds \subseteq {"Added"}
       /\ IsCheckLimits =>
            /\ cur.t \in DOMAIN tasks
            /\ tasks[cur.t].name = cur.name
            /\ DOMAIN tasks' = DOMAIN tasks
            /\ AppendedKinds \subseteq AlertKinds
       /\ IsUpdateUsage =>
            /\ DOMAIN tasks' = DOMAIN tasks
            /\ AppendedKinds \subseteq {"UsesNow", "SizeChanged"}]_vars

\* a sample whose lines are DANGER, ERROR, 'uses now', 'stack size changed',
\* in this order
C13_Witness ==
    /\ AfterSample
    /\ Len(SampleLines) = 4
    /\ SampleLines[1].kind = "DANGER"
    /\ SampleLines[2].kind = "ERROR"
    /\ SampleLines[3].kind = "UsesNow"
    /\ SampleLines[4].kind = "SizeChanged"

(* -------------------------------- C14 ---------------------------------- *)

PassPcs == {"iterateTasks", "iterateTaskList", "addTask", "checkLimits",
            "updateUsage", "Enable", "ownTask", "printTextBuffer"}

AfterLoopPcs == {"stopTimer", "exit", "done"}

\* C14: control leaves a pass of iterateTasks() only through its flush,
\* whatever signal arrives meanwhile; the summary is printed only with
\* Control-C received and no pass in progress; after the summary control
\* never is in the loop again (no second summary, no pass); and once
\* Control-C is pending the summary is printed and the process ends.
C14_CooperativeCancel ==
    /\ [][/\ pc \in PassPcs =>
               /\ pc' \in PassPcs \cup {"break", "startTimer"}
               /\ (pc' \notin PassPcs => pc = "printTextBuffer")
          /\ IsSummary =>
               /\ "ctrlc" \in sigs
               /\ cur = NoSample /\ stream = <<>> /\ ~frozen
          /\ pc \in AfterLoopPcs =>
               /\ pc' \in AfterLoopPcs
               /\ tasks' = tasks]_vars
    /\ ("ctrlc" \in signals) ~>
          (pc = "stopTimer" /\ out.console # <<>> /\ Head(out.console) = HeaderLine)
    /\ ("ctrlc" \in signals) ~> (pc = "done")

\* Control-C arrived in the middle of a pass, the pass has reached its flush
C14_Witness ==
    /\ pc = "printTextBuffer"
    /\ "ctrlc" \in signals
    /\ "ctrlc" \notin sigs
    /\ stream # <<>>

(* -------------------------------- C15 ---------------------------------- *)

\* C15: after every step dangerAt of each record is the highest percentage
\* printed in a DANGER line since the record was created or replaced (0.0 if
\* there is none), hence 0.0 or at least 90; warningAt likewise for Warning
\* lines, hence 0.0 or in [50, 90); and no step lowers either of them on a
\* record that keeps its name.
C15_HistoryIsHighestFired ==
    [][\A t \in DOMAIN tasks' :
         LET r == tasks'[t]
         IN /\ r.dangerAt = hyst'[t].topD
            /\ r.warningAt = hyst'[t].topW
            /\ r.dangerAt = ZeroF \/ FLeq(dangerThreshold, r.dangerAt)
            /\ \/ r.warningAt = ZeroF
               \/ /\ FLeq(warningThreshold, r.warningAt)
                  /\ FLess(r.warningAt, dangerThreshold)
            /\ (t \in DOMAIN tasks /\ tasks[t].name = r.name) =>
                 /\ FLeq(tasks[t].dangerAt, r.dangerAt)
                 /\ FLeq(tasks[t].warningAt, r.warningAt)]_vars

\* a sample in the danger band below the DANGER line already printed for
\* the record, which also holds a warning history
C15_Witness ==
    /\ pc = "updateUsage"
    /\ "hyst" \in obs
    /\ FLeq(dangerThreshold, CurP)
    /\ FLess(CurP, tasks[cur.t].dangerAt)
    /\ tasks[cur.t].dangerAt = hyst[cur.t].topD
    /\ tasks[cur.t].warningAt # ZeroF

(* -------------------------------- C16 ---------------------------------- *)

\* C16: when the sample (t, n, s) has been processed the record of t has the
\* name n, its total is s.total, its maxUsage is the highest used of the
\* samples of t since the record was created or replaced, so not below
\* s.used; and updateUsage appends a 'stack size changed' line, with the
\* stored and the new total, exactly when verbose is set and s.total differs
\* from the total stored in a record that this sample did not create.
C16_PostSample ==
    [][IsUpdateUsage =>
         /\ cur.t \in DOMAIN tasks'
         /\ tasks'[cur.t].name = cur.name
         /\ tasks'[cur.t].total = cur.si.total
         /\ tasks'[cur.t].maxUsage = hyst'[cur.t].peak
         /\ ~ULess(tasks'[cur.t].maxUsage, cur.si.used)
         /\ Cardinality(Fired("SizeChanged")) =
              IF verbose /\ tasks[cur.t].total # cur.si.total THEN 1 ELSE 0
         /\ \A i \in Fired("SizeChanged") :
              /\ Appended[i].args = <<tasks[cur.t].total, cur.si.total>>
              /\ Count(SampleLines, "Added") = 0]_vars

\* a sample of a known task below its peak and with another total has been
\* processed: the line is in the stream, the peak stands, the total is new
C16_Witness ==
    /\ AfterSample
    /\ "hyst" \in obs
    /\ Count(SampleLines, "SizeChanged") = 1
    /\ ULess(cur.si.used, tasks[cur.t].maxUsage)
    /\ tasks[cur.t].maxUsage = hyst[cur.t].peak
    /\ tasks[cur.t].total = cur.si.total

(* -------------------------------- C17 ---------------------------------- *)

Hundred == <<0, 100, 1>>

\* the part of C17 about a pointer above upper: used is upper - current
\* wrapped (the representative is negative), checkLimits evaluates the
\* percentage of that value, which for a region that is not empty is of the
\* order of 2^32 and in the danger band, and updateUsage leaves maxUsage at
\* or above (unsigned) that value.
AboveUpperAsIs ==
    cur.si.current > cur.si.upper =>
       /\ cur.si.used = cur.si.upper - cur.si.current
       /\ (IsCheckLimits /\ cur.si.total # 0) =>
            /\ CurP[1] = 1
            /\ Fired("DANGER") # {} \/ FLeq(CurP, tasks[cur.t].dangerAt)
            /\ FLeq(CurP, tasks'[cur.t].dangerAt)
            /\ Cardinality(Fired("ERROR")) = 1
       /\ IsUpdateUsage =>
            /\ tasks'[cur.t].maxUsage < 0
            /\ ~ULess(tasks'[cur.t].maxUsage, cur.si.used)

\* the part of C17 about a pointer below lower, for the samples in Below
BelowLowerIsDanger(Below) ==
    (IsCheckLimits /\ cur.si.current < cur.si.lower /\ Below) =>
       /\ ULess(cur.si.total, cur.si.used)
       /\ FLess(Hundred, CurP)
       /\ Fired("DANGER") # {} \/ FLeq(CurP, tasks[cur.t].dangerAt)
       /\ Fired("Warning") = {}
       /\ Cardinality(Fired("ERROR")) = 1

Resampled == prev[cur.t] = [name |-> cur.name, si |-> cur.si]

\* C18: while a sample is processed that equals the sample of the same
\* handle taken before (name, upper, lower, current), addTask, checkLimits
\* and updateUsage leave the map as it is, and the only line appended is the
\* ERROR line of checkLimits, when the pointer is outside the bounds.
C18_ResampleIdempotent ==
    [][((IsAddTask \/ IsCheckLimits \/ IsUpdateUsage) /\ Resampled) =>
         /\ tasks' = tasks
         /\ IF IsCheckLimits /\ (\/ cur.si.current < cur.si.lower
                                 \/ cur.si.current > cur.si.upper)
            THEN Len(Appended) = 1 /\ Appended[1].kind = "ERROR"
            ELSE Appended = <<>>]_vars

\* with verbose set, a sample above upper taken twice: the second time
\* addTask and checkLimits have put the ERROR line into the stream and
\* nothing else
C18_Witness ==
    /\ pc = "updateUsage"
    /\ "prev" \in obs
    /\ Resampled
    /\ verbose
    /\ cur.si.current > cur.si.upper
    /\ Len(SampleLines) = 1
    /\ SampleLines[1].kind = "ERROR"
    /\ tasks[cur.t].maxUsage = cur.si.used

(* -------------------------------- C19 ---------------------------------- *)

\* C19: addTask, checkLimits and updateUsage on a sample of t add no key but
\* t to the map and leave the record of every other key as it is; every
\* other step, the flush and the summary among them, leaves the map as it is.
C19_SampleTouchesOneRecord ==
    [][IF IsAddTask \/ IsCheckLimits \/ IsUpdateUsage
       THEN /\ DOMAIN tasks' \subseteq DOMAIN tasks \cup {cur.t}
            /\ \A k \in DOMAIN tasks \ {cur.t} :
                 k \in DOMAIN tasks' /\ tasks'[k] = tasks[k]
       ELSE tasks' = tasks]_vars

\* a task is added under a new name and printed DANGER while the map
\* holds the record of the monitor's own task with its warning history
C19_Witness ==
    /\ pc = "updateUsage"
    /\ cur.t \in OtherTasks
    /\ ownTask \in DOMAIN tasks
    /\ tasks[ownTask].name = ownName
    /\ tasks[ownTask].warningAt # ZeroF
    /\ Count(SampleLines, "Added") = 1
    /\ Count(SampleLines, "DANGER") = 1
    /\ tasks[cur.t].maxUsage # tasks[ownTask].maxUsage

(* -------------------------------- C20 ---------------------------------- *)

\* control is in the walk of TaskWait and TaskReady
InWalk ==
    \/ pc \in {"iterateTaskList", "Enable"}
    \/ pc \in {"addTask", "checkLimits", "updateUsage"}
       /\ phase \in {"TaskWait", "TaskReady"}

\* C20: interrupts are disabled exactly while control is in the walk of the
\* two lists: not while run() waits or is anywhere else outside the pass,
\* not while the monitor's own task is sampled, not at the flush; they are
\* disabled only by the Disable() at the start of a pass, which is entered
\* from Wait with interrupts enabled, and enabled only by the Enable() that
\* ends the walk of TaskReady, so once each in a pass.
C20_FreezeBracket ==
    [][/\ frozen' <=> InWalk'
       /\ (pc = "iterateTasks" /\ pc' # pc) => (~frozen /\ frozen')
       /\ (pc = "Enable" /\ pc' # pc) => (frozen /\ ~frozen')
       /\ frozen' # frozen => pc \in {"iterateTasks", "Enable"}
       /\ (pc' = "iterateTasks" /\ pc' # pc) => pc = "Wait"
       /\ (pc' = "Enable" /\ pc' # pc) =>
            (pc = "iterateTaskList" /\ phase = "TaskReady")
       /\ (pc' = "ownTask" /\ pc' # pc) => pc = "Enable"]_vars

\* a task of TaskReady is being sampled with interrupts disabled, the timer
\* request answered and Control-C received by the same Wait
C20_Witness ==
    /\ pc = "checkLimits"
    /\ phase = "TaskReady"
    /\ frozen
    /\ cur.t \in OtherTasks
    /\ sigs = {"timer", "ctrlc"}
    /\ signals = {}

(* -------------------------------- C21 ---------------------------------- *)

IsStartTimer == pc = "startTimer" /\ pc' = "Wait"

IsStopTimer == pc = "stopTimer" /\ pc' = "exit"

\* C21: startTimer() sends the request only when it is not in flight (never
\* sent, or answered by the timer device), and nothing else puts it in
\* flight; stopTimer() takes back a request still in flight (AbortIO and
\* WaitIO leave it idle) and leaves an answered one as it is; and from the
\* return of run() on the request is not in flight.
C21_TimerRequest ==
    [][/\ IsStartTimer => (timerIO # "pending" /\ timerIO' = "pending")
       /\ (timerIO' = "pending" /\ timerIO # "pending") => IsStartTimer
       /\ IsStopTimer =>
            timerIO' = (IF timerIO = "pending" THEN "idle" ELSE timerIO)
       /\ pc' \in {"exit", "done"} => timerIO' # "pending"]_vars

\* run() has returned after at least one pass, left by a Wait that returned
\* Control-C alone: the request sent last was in flight and has been taken
\* back
C21_Witness ==
    /\ pc = "exit"
    /\ acquired = Resources
    /\ seen # {}
    /\ sigs = {"ctrlc"}
    /\ timerIO = "idle"

====
